---- MODULE Spec2Model ----
(***************************************************************************)
(* Model of thalassa/api.py: the trimesh / raster construction, the        *)
(* point-in-mesh test, the stream time-series callback, the direct         *)
(* time-series extraction and the mesh-polygon generation.                 *)
(*                                                                         *)
(* Conventions.  Python arrays are TLA+ sequences read with 0-based        *)
(* indices through Idx.  A float is either NaN (the empty tuple) or        *)
(* Num(v) (a one-element tuple); coordinates are integers counted in       *)
(* thirds of 0.001 degree, so that the ".3f" formatting of the titles is   *)
(* a rounding and not the identity.  Python's None, strings, ints and      *)
(* timestamps passed as arguments are tagged records (None, PyStr, PyInt, PyTs). *)
(***************************************************************************)
EXTENDS Integers, Sequences, FiniteSets, TLC

VARIABLES ds, dmap, last

vars == <<ds, dmap, last>>

\* ---------------------------------------------------------------- bounds
NumTimes == 2
NumLayers == 2
\* event and query coordinates are 0, 2, .., 2 * CoordSteps
CoordSteps == 4

\* ------------------------------------------------------- python values
None == [kind |-> "none", s |-> "", i |-> 0]
PyStr(s) == [kind |-> "str", s |-> s, i |-> 0]
PyInt(i) == [kind |-> "int", s |-> "", i |-> i]
PyTs(i) == [kind |-> "ts", s |-> "", i |-> i]

\* bool(timestamp): None and the empty string are falsy, the rest truthy
Truthy(v) == ~(v.kind = "none" \/ (v.kind = "str" /\ v.s = ""))

NaN == <<>>
Num(v) == <<v>>
IsNaN(x) == x = NaN

Idx(arr, i) == arr[i + 1]
InRange(arr, i) == i >= 0 /\ i < Len(arr)

Variable == "elev"

\* ------------------------------------------------------------ datasets
\* Node positions of the example meshes (lon, lat per node).
NodeLon == <<0, 8, 0, 8>>
NodeLat == <<0, 0, 6, 8>>
NumNodes == Len(NodeLon)

\* triface_nodes of the example meshes: no, one or two triangles
Meshes == { <<>>, << <<0, 1, 2>> >>, << <<0, 1, 2>>, <<1, 3, 2>> >> }

\* values of the ds.node coordinate: 0..N-1, a permutation, 1..N
NodeCoords == { <<0, 1, 2, 3>>, <<1, 0, 2, 3>>, <<1, 2, 3, 4>> }

DimSize(d) == IF d = "time" THEN NumTimes ELSE IF d = "layer" THEN NumLayers ELSE NumNodes

MaxDimSize == IF NumTimes >= NumLayers /\ NumTimes >= NumNodes THEN NumTimes
              ELSE IF NumLayers >= NumNodes THEN NumLayers ELSE NumNodes

\* all index tuples of an array with the given dimensions
IndexSet(dims) ==
  { s \in [1..Len(dims) -> 0..(MaxDimSize - 1)] : \A k \in 1..Len(dims) : s[k] < DimSize(dims[k]) }

\* the field: differs per time, layer and node; `dry` nodes hold NaN
FieldValue(t, l, n, dry) ==
  IF n \in dry THEN NaN ELSE Num(((t + n) % NumTimes) * 10 + 5 * l + n + 1)

FieldArray(dry) ==
  [dims |-> <<"time", "layer", "node">>,
   vals |-> [s \in IndexSet(<<"time", "layer", "node">>) |-> FieldValue(s[1], s[2], s[3], dry)]]

Dataset(mesh, nodes, dry) ==
  [lon |-> NodeLon, lat |-> NodeLat, node |-> nodes, triface_nodes |-> mesh,
   time |-> [k \in 1..NumTimes |-> PyTs(k - 1)],
   elev |-> FieldArray(dry)]

\* every mesh with all values present, the two-triangle mesh with a dry
\* node, the one-triangle mesh under every node coordinate
Datasets ==
  { Dataset(m, <<0, 1, 2, 3>>, {}) : m \in Meshes }
  \cup { Dataset(<< <<0, 1, 2>>, <<1, 3, 2>> >>, <<0, 1, 2, 3>>, {0}) }
  \cup { Dataset(<< <<0, 1, 2>> >>, n, {}) : n \in NodeCoords }

\* ------------------------------------------------------ xarray helpers
DimPos(dims, d) == CHOOSE k \in 1..Len(dims) : dims[k] = d
DropAt(seq, k) == [j \in 1..(Len(seq) - 1) |-> IF j < k THEN seq[j] ELSE seq[j + 1]]
InsertAt(seq, k, v) ==
  [j \in 1..(Len(seq) + 1) |-> IF j < k THEN seq[j] ELSE IF j = k THEN v ELSE seq[j - 1]]

\* DataArray.isel({d: i}) for a dimension the array has
IselArray(da, d, i) ==
  LET k == DimPos(da.dims, d)
      nd == DropAt(da.dims, k)
  IN [dims |-> nd, vals |-> [s \in IndexSet(nd) |-> da.vals[InsertAt(s, k, i)]]]

\* Dataset.isel(layer=i): lon and lat have no layer dimension
IselLayer(d, i) == [d EXCEPT !.elev = IselArray(d.elev, "layer", i)]

NumsOf(S) == { x[1] : x \in { y \in S : ~IsNaN(y) } }
SetMax(S) == CHOOSE x \in S : \A y \in S : y <= x
SetMin(S) == CHOOSE x \in S : \A y \in S : x <= y
\* max / min skip NaN and give NaN only for an all-NaN slice
NanMax(S) == IF NumsOf(S) = {} THEN NaN ELSE Num(SetMax(NumsOf(S)))
NanMin(S) == IF NumsOf(S) = {} THEN NaN ELSE Num(SetMin(NumsOf(S)))

AlongTime(da, s) ==
  LET k == DimPos(da.dims, "time")
  IN { da.vals[InsertAt(s, k, t)] : t \in 0..(NumTimes - 1) }

\* DataArray.max("time") and DataArray.min("time")
MaxTime(da) ==
  LET nd == DropAt(da.dims, DimPos(da.dims, "time"))
  IN [dims |-> nd, vals |-> [s \in IndexSet(nd) |-> NanMax(AlongTime(da, s))]]

MinTime(da) ==
  LET nd == DropAt(da.dims, DimPos(da.dims, "time"))
  IN [dims |-> nd, vals |-> [s \in IndexSet(nd) |-> NanMin(AlongTime(da, s))]]

\* positions of the time coordinate equal to the label
TimeMatches(d, label) == { t \in 0..(NumTimes - 1) : Idx(d.time, t) = label }

\* -------------------------------------------------------- create_trimesh
\* points_df is kept as the array of `variable` over the remaining
\* dimensions (one frame row per index tuple), beside lon and lat.
TrimeshOf(d, arr, steps) ==
  [err |-> "", steps |-> steps,
   points |-> [lon |-> d.lon, lat |-> d.lat, vals |-> arr],
   simplices |-> d.triface_nodes]

CreateTrimeshTruthyFirst(d, variable, timestamp, layer) ==
  LET d1 == IF layer # None THEN IselLayer(d, layer.i) ELSE d
      pre == IF layer # None THEN <<"isel_layer">> ELSE <<>>
  IN IF Truthy(timestamp)
       THEN IF TimeMatches(d1, timestamp) = {}
              THEN [err |-> "KeyError", steps |-> Append(pre, "sel")]
              ELSE TrimeshOf(d1, IselArray(d1.elev, "time", CHOOSE t \in TimeMatches(d1, timestamp) : TRUE),
                             Append(pre, "sel"))
       ELSE TrimeshOf(d1, d1.elev, Append(pre, "all"))

CreateTrimesh(d, variable, timestamp, layer) ==
  LET d1 == IF layer # None THEN IselLayer(d, layer.i) ELSE d
      pre == IF layer # None THEN <<"isel_layer">> ELSE <<>>
  IN IF timestamp = PyStr("max")
       THEN TrimeshOf(d1, MaxTime(d1.elev), Append(pre, "max"))
     ELSE IF timestamp = PyStr("min")
       THEN TrimeshOf(d1, MinTime(d1.elev), Append(pre, "min"))
     ELSE IF Truthy(timestamp)
       THEN IF TimeMatches(d1, timestamp) = {}
              THEN [err |-> "KeyError", steps |-> Append(pre, "sel")]
              ELSE TrimeshOf(d1, IselArray(d1.elev, "time", CHOOSE t \in TimeMatches(d1, timestamp) : TRUE),
                             Append(pre, "sel"))
     ELSE TrimeshOf(d1, d1.elev, Append(pre, "all"))

\* ------------------------------------------------------------ get_raster
Cross(ax, ay, bx, by, px, py) == (bx - ax) * (py - ay) - (by - ay) * (px - ax)
Abs(v) == IF v < 0 THEN 0 - v ELSE v

\* the closed triangle with corners a, b, c (node indices) holds (px, py)
InTriangle(lon, lat, tri, px, py) ==
  LET a == tri[1]
      b == tri[2]
      c == tri[3]
      s1 == Cross(Idx(lon, a), Idx(lat, a), Idx(lon, b), Idx(lat, b), px, py)
      s2 == Cross(Idx(lon, b), Idx(lat, b), Idx(lon, c), Idx(lat, c), px, py)
      s3 == Cross(Idx(lon, c), Idx(lat, c), Idx(lon, a), Idx(lat, a), px, py)
  IN (s1 >= 0 /\ s2 >= 0 /\ s3 >= 0) \/ (s1 <= 0 /\ s2 <= 0 /\ s3 <= 0)

\* linear interpolation of the corner values at (px, py), rounded down;
\* NaN as soon as one corner is NaN
TriangleValue(pts, tri, px, py) ==
  LET a == tri[1]
      b == tri[2]
      c == tri[3]
      lon == pts.lon
      lat == pts.lat
      area == Abs(Cross(Idx(lon, a), Idx(lat, a), Idx(lon, b), Idx(lat, b), Idx(lon, c), Idx(lat, c)))
      wa == Abs(Cross(Idx(lon, b), Idx(lat, b), Idx(lon, c), Idx(lat, c), px, py))
      wb == Abs(Cross(Idx(lon, c), Idx(lat, c), Idx(lon, a), Idx(lat, a), px, py))
      wc == Abs(Cross(Idx(lon, a), Idx(lat, a), Idx(lon, b), Idx(lat, b), px, py))
      va == pts.vals.vals[<<a>>]
      vb == pts.vals.vals[<<b>>]
      vc == pts.vals.vals[<<c>>]
  IN IF IsNaN(va) \/ IsNaN(vb) \/ IsNaN(vc) THEN NaN
     ELSE Num((wa * va[1] + wb * vb[1] + wc * vc[1]) \div area)

\* centres of the raster cells along each axis
RasterCoords == <<1, 3, 5, 7>>

RasterCells == { <<i, j>> : i \in 0..(Len(RasterCoords) - 1), j \in 0..(Len(RasterCoords) - 1) }

\* rasterize(trimesh), as datashader renders a TriMesh: a cell holds the
\* field interpolated linearly inside the triangle that covers its centre
\* and NaN where no triangle does.  The display options do not matter.
GetRaster(trimesh) ==
  LET pts == trimesh.points
      tris == trimesh.simplices
      hit(c) == { r \in 1..Len(tris) : InTriangle(pts.lon, pts.lat, tris[r], Idx(RasterCoords, c[1]), Idx(RasterCoords, c[2])) }
  IN [lon |-> RasterCoords, lat |-> RasterCoords,
      vals |-> [c \in RasterCells |->
                  IF hit(c) = {} THEN NaN
                  ELSE TriangleValue(pts, tris[SetMin(hit(c))], Idx(RasterCoords, c[1]), Idx(RasterCoords, c[2]))]]

\* -------------------------------------------------- is_point_in_the_mesh
OutOfBounds(coords, x) == x < coords[1] \/ x > coords[Len(coords)]

\* the lower index of the interval of coords used for x: the last
\* coordinate below x, kept inside 0..len-2
Interval(coords, x) ==
  LET below == { i \in 0..(Len(coords) - 1) : Idx(coords, i) < x }
      raw == IF below = {} THEN 0 ELSE SetMax(below)
  IN IF raw > Len(coords) - 2 THEN Len(coords) - 2 ELSE raw

\* DataArray.interp(lon=, lat=): linear in both axes, NaN outside the
\* coordinates and NaN when one of the four surrounding cells is NaN
Interp(raster, lon, lat) ==
  IF OutOfBounds(raster.lon, lon) \/ OutOfBounds(raster.lat, lat) THEN NaN
  ELSE LET i == Interval(raster.lon, lon)
           j == Interval(raster.lat, lat)
           x0 == Idx(raster.lon, i)
           x1 == Idx(raster.lon, i + 1)
           y0 == Idx(raster.lat, j)
           y1 == Idx(raster.lat, j + 1)
           v00 == raster.vals[<<i, j>>]
           v10 == raster.vals[<<i + 1, j>>]
           v01 == raster.vals[<<i, j + 1>>]
           v11 == raster.vals[<<i + 1, j + 1>>]
       IN IF IsNaN(v00) \/ IsNaN(v10) \/ IsNaN(v01) \/ IsNaN(v11) THEN NaN
          ELSE Num(( (x1 - lon) * (y1 - lat) * v00[1] + (lon - x0) * (y1 - lat) * v10[1]
                   + (x1 - lon) * (lat - y0) * v01[1] + (lon - x0) * (lat - y0) * v11[1] )
                   \div ((x1 - x0) * (y1 - y0)))

IsPointInTheMesh(raster, lon, lat) == ~IsNaN(Interp(raster, lon, lat))

\* --------------------------------------------- get_index_of_nearest_node
Dist2(d, n, lon, lat) ==
  (Idx(d.lon, n) - lon) * (Idx(d.lon, n) - lon) + (Idx(d.lat, n) - lat) * (Idx(d.lat, n) - lat)

\* thalassa/utils.py: the index of the node nearest to (lon, lat), the
\* lowest index among equally near nodes
GetIndexOfNearestNode(d, lon, lat) ==
  SetMin({ n \in 0..(Len(d.lon) - 1) : \A m \in 0..(Len(d.lon) - 1) : Dist2(d, n, lon, lat) <= Dist2(d, m, lon, lat) })

\* ------------------------------------------------ _get_stream_timeseries
StreamClasses == {"Tap", "PointerXY", "DoubleTap", "SingleTap", "MouseEnter"}

SelectColumns(d) == [lon |-> d.lon, lat |-> d.lat, elev |-> d.elev]

GetStreamTimeseriesNoCheck(d, variable, source_raster, stream_class, layer) ==
  LET d1 == IF layer # None THEN IselLayer(d, layer.i) ELSE d
      pre == IF layer # None THEN <<"isel_layer">> ELSE <<>>
  IN [err |-> "", steps |-> pre \o <<"select_columns", "stream", "dmap">>,
      dmap |-> [kind |-> "dmap", ds |-> SelectColumns(d1), variable |-> variable,
                source_raster |-> source_raster,
                stream |-> [cls |-> stream_class, x |-> 0, y |-> 0]]]

GetStreamTimeseries(d, variable, source_raster, stream_class, layer) ==
  IF stream_class \notin {"Tap", "PointerXY"}
    THEN [err |-> "ValueError", steps |-> <<>>]
    ELSE LET d1 == IF layer # None THEN IselLayer(d, layer.i) ELSE d
             pre == IF layer # None THEN <<"isel_layer">> ELSE <<>>
         IN [err |-> "", steps |-> pre \o <<"select_columns", "stream", "dmap">>,
             dmap |-> [kind |-> "dmap", ds |-> SelectColumns(d1), variable |-> variable,
                       source_raster |-> source_raster,
                       stream |-> [cls |-> stream_class, x |-> 0, y |-> 0]]]

GetTapTimeseries(d, variable, source_raster, layer) ==
  GetStreamTimeseries(d, variable, source_raster, "Tap", layer)

GetPointerTimeseries(d, variable, source_raster, layer) ==
  GetStreamTimeseries(d, variable, source_raster, "PointerXY", layer)

\* f"{v:.3f}" of a coordinate counted in thirds of 0.001: the number of
\* thousandths nearest to it
Fmt3(v) == IF v >= 0 THEN (v + 1) \div 3 ELSE 0 - ((1 - v) \div 3)

Title(variable, lon, lat) == <<variable, Fmt3(lon), Fmt3(lat)>>

AllValues(arr) == { arr.vals[s] : s \in DOMAIN arr.vals }

CallbackNoTest(dm, x, y) ==
  LET node_index == GetIndexOfNearestNode(dm.ds, x, y)
      ts == IselArray(dm.ds.elev, "node", node_index)
  IN [curve |-> ts,
      range |-> <<NanMin(AllValues(ts)), NanMax(AllValues(ts))>>,
      title |-> Title(dm.variable, Idx(dm.ds.lon, node_index), Idx(dm.ds.lat, node_index)),
      lookups |-> <<node_index>>]

\* the callback of the DynamicMap, for one event (x, y) of its stream
Callback(dm, x, y) ==
  IF ~IsPointInTheMesh(dm.source_raster, x, y)
    THEN [curve |-> [dims |-> <<>>, vals |-> <<>>],
          range |-> <<NaN, NaN>>,
          title |-> Title(dm.variable, x, y),
          lookups |-> <<>>]
    ELSE LET node_index == GetIndexOfNearestNode(dm.ds, x, y)
             ts == IselArray(dm.ds.elev, "node", node_index)
         IN [curve |-> ts,
             range |-> <<NanMin(AllValues(ts)), NanMax(AllValues(ts))>>,
             title |-> Title(dm.variable, Idx(dm.ds.lon, node_index), Idx(dm.ds.lat, node_index)),
             lookups |-> <<node_index>>]

\* ---------------------------------------------------- extract_timeseries
ExtractTimeseriesFirstNode(d, variable, lon, lat) == IselArray(d.elev, "node", 0)

ExtractTimeseries(d, variable, lon, lat) ==
  LET index == GetIndexOfNearestNode(d, lon, lat)
  IN IselArray(d.elev, "node", index)

\* ------------------------------------------------------- plot_timeseries
\* names bound at module level of api.py (imports and definitions)
ModuleNames ==
  {"logging", "gpd", "gv", "hv", "np", "pd", "pygeos", "shapely", "xr", "dynspread",
   "rasterize", "PointerXY", "Tap", "Stream", "get_index_of_nearest_node", "logger",
   "create_trimesh", "get_tiles", "get_wireframe", "get_raster", "is_point_in_the_mesh",
   "_get_stream_timeseries", "get_tap_timeseries", "get_pointer_timeseries",
   "extract_timeseries", "plot_timeseries", "generate_mesh_polygon"}

\* the statements of the body: the names each one reads, in evaluation
\* order, and the local name it assigns
PlotTimeseriesBody ==
  << [loads |-> <<"get_index_of_nearest_node", "ds", "lon", "lat">>, store |-> "node_index"],
     [loads |-> <<"ds", "node_index">>, store |-> "node_lon"],
     [loads |-> <<"ds", "node_index">>, store |-> "node_lat"],
     [loads |-> <<"x", "y", "node_lon", "node_lat">>, store |-> "title"],
     [loads |-> <<"hv", "ts", "variable", "ts", "ts", "title">>, store |-> "plot"] >>

Unbound(loads, locals) == { k \in 1..Len(loads) : loads[k] \notin locals \cup ModuleNames }

RECURSIVE RunBody(_, _, _)
\* runs the statements from position k on; a read of a name bound neither
\* locally nor in the module raises NameError
RunBody(body, k, locals) ==
  IF k > Len(body) THEN [err |-> "", name |-> "", locals |-> locals]
  ELSE IF Unbound(body[k].loads, locals) # {}
    THEN [err |-> "NameError", name |-> body[k].loads[SetMin(Unbound(body[k].loads, locals))], locals |-> locals]
  ELSE RunBody(body, k + 1, locals \cup {body[k].store})

PlotTimeseries(ts, lon, lat) ==
  LET run == RunBody(PlotTimeseriesBody, 1, {"ts", "lon", "lat"})
  IN IF run.err # "" THEN [err |-> run.err, name |-> run.name]
     ELSE [err |-> "", name |-> "", curve |-> ts]

\* ------------------------------------------------- generate_mesh_polygon
\* numpy arrays with a shape: at maps 0-based index tuples to elements
Cells2(r, c) == { <<i, j>> : i \in 0..(r - 1), j \in 0..(c - 1) }

\* arr[idxs] for a one-dimensional arr and an index array
Take(arr, idxs) == [k \in 1..Len(idxs) |-> Idx(arr, idxs[k])]
TakeOk(arr, idxs) == \A k \in 1..Len(idxs) : InRange(arr, idxs[k])

Column(tris, c) == [r \in 1..Len(tris) |-> tris[r][c + 1]]

VStack(rows) ==
  [shape |-> <<Len(rows), Len(rows[1])>>,
   at |-> [p \in Cells2(Len(rows), Len(rows[1])) |-> Idx(Idx(rows, p[1]), p[2])]]

Transpose(a) ==
  [shape |-> <<a.shape[2], a.shape[1]>>,
   at |-> [p \in Cells2(a.shape[2], a.shape[1]) |-> a.at[<<p[2], p[1]>>]]]

Clip(v, hi) == IF v > hi THEN hi ELSE v

\* a[:, lo:hi]
SliceCols(a, lo, hi) ==
  LET l == Clip(lo, a.shape[2])
      h == Clip(hi, a.shape[2])
      w == IF h > l THEN h - l ELSE 0
  IN [shape |-> <<a.shape[1], w>>,
      at |-> [p \in Cells2(a.shape[1], w) |-> a.at[<<p[1], p[2] + l>>]]]

StackAxis0(arrs) ==
  [shape |-> <<Len(arrs), arrs[1].shape[1], arrs[1].shape[2]>>,
   at |-> [p \in { <<k, i, j>> : k \in 0..(Len(arrs) - 1), i \in 0..(arrs[1].shape[1] - 1),
                                 j \in 0..(arrs[1].shape[2] - 1) } |-> Idx(arrs, p[1]).at[<<p[2], p[3]>>]]]

\* np.stack(arrs, axis=1) of equally shaped two-dimensional arrays
StackAxis1(arrs) ==
  [shape |-> <<arrs[1].shape[1], Len(arrs), arrs[1].shape[2]>>,
   at |-> [p \in { <<i, k, j>> : i \in 0..(arrs[1].shape[1] - 1), k \in 0..(Len(arrs) - 1),
                                 j \in 0..(arrs[1].shape[2] - 1) } |-> Idx(arrs, p[2]).at[<<p[1], p[3]>>]]]

\* the ring of polygon r: the points polygons_coords[r, k, :]
RingOf(coords, r) == [k \in 1..coords.shape[2] |-> <<coords.at[<<r, k - 1, 0>>], coords.at[<<r, k - 1, 1>>]>>]

PolygonsFrom(d, first_nodes, second_nodes, third_nodes) ==
  IF ~(TakeOk(d.lon, first_nodes) /\ TakeOk(d.lon, second_nodes) /\ TakeOk(d.lon, third_nodes))
    THEN [err |-> "IndexError", rings |-> <<>>, shape |-> <<>>]
  ELSE
    LET polygons_per_line ==
          Transpose(VStack(<< Take(d.lon, first_nodes), Take(d.lat, first_nodes),
                              Take(d.lon, second_nodes), Take(d.lat, second_nodes),
                              Take(d.lon, third_nodes), Take(d.lat, third_nodes),
                              Take(d.lon, first_nodes), Take(d.lat, first_nodes) >>))
        polygons_coords ==
          StackAxis1(<< SliceCols(polygons_per_line, 0, 2), SliceCols(polygons_per_line, 2, 4),
                        SliceCols(polygons_per_line, 4, 6), SliceCols(polygons_per_line, 6, 8) >>)
    IN IF SubSeq(polygons_coords.shape, 2, 3) # <<4, 2>>
         THEN [err |-> "ValueError", rings |-> <<>>, shape |-> polygons_coords.shape]
         ELSE [err |-> "", shape |-> polygons_coords.shape,
               rings |-> [r \in 1..polygons_coords.shape[1] |-> RingOf(polygons_coords, r - 1)]]

\* the result is the union of the triangles whose rings are `rings`
GenerateMeshPolygon(d) ==
  LET cols == [c \in 0..2 |-> Column(d.triface_nodes, c)]
  IN IF ~(\A c \in 0..2 : TakeOk(d.node, cols[c]))
       THEN [err |-> "IndexError", rings |-> <<>>, shape |-> <<>>]
       ELSE PolygonsFrom(d, Take(d.node, cols[0]), Take(d.node, cols[1]), Take(d.node, cols[2]))

\* ------------------------------------------------------------- inputs
TimestampInputs ==
  {None, PyStr(""), PyStr("max"), PyStr("min"), PyStr("late")} \cup { PyTs(t) : t \in 0..NumTimes }

LayerInputs == {None} \cup { PyInt(l) : l \in 0..(NumLayers - 1) }

\* positions of events and queries: even coordinates, which never fall
\* exactly on a raster coordinate
Coords == { 2 * k : k \in 0..CoordSteps }

\* the raster on display shows the maximum over time of one layer
RasterTimestamp == PyStr("max")

SourceRaster(d, layer) ==
  GetRaster(CreateTrimesh(d, Variable, RasterTimestamp, IF layer = None THEN PyInt(0) ELSE layer))

\* ------------------------------------------------------------- actions
Init ==
  /\ ds \in Datasets
  /\ dmap = None
  /\ last = [op |-> "init"]

DoCreateTrimesh(timestamp, layer) ==
  /\ last' = [op |-> "create_trimesh", timestamp |-> timestamp, layer |-> layer,
              result |-> CreateTrimesh(ds, Variable, timestamp, layer)]
  /\ UNCHANGED <<ds, dmap>>

DoGetRaster(timestamp, layer) ==
  LET trimesh == CreateTrimesh(ds, Variable, timestamp, layer)
  IN /\ trimesh.err = ""
     /\ trimesh.points.vals.dims = <<"node">>
     /\ Len(trimesh.simplices) > 0
     /\ last' = [op |-> "get_raster", trimesh |-> trimesh, result |-> GetRaster(trimesh)]
     /\ UNCHANGED <<ds, dmap>>

DoGetStreamTimeseries(stream_class, layer) ==
  LET res == GetStreamTimeseries(ds, Variable, SourceRaster(ds, layer), stream_class, layer)
  IN /\ Len(ds.triface_nodes) > 0
     /\ last' = [op |-> "_get_stream_timeseries", stream_class |-> stream_class, layer |-> layer,
                 result |-> res]
     /\ dmap' = IF res.err = "" THEN res.dmap ELSE dmap
     /\ UNCHANGED ds

DoGetTapTimeseries(layer) ==
  LET res == GetTapTimeseries(ds, Variable, SourceRaster(ds, layer), layer)
  IN /\ Len(ds.triface_nodes) > 0
     /\ last' = [op |-> "get_tap_timeseries", layer |-> layer, result |-> res]
     /\ dmap' = IF res.err = "" THEN res.dmap ELSE dmap
     /\ UNCHANGED ds

DoGetPointerTimeseries(layer) ==
  LET res == GetPointerTimeseries(ds, Variable, SourceRaster(ds, layer), layer)
  IN /\ Len(ds.triface_nodes) > 0
     /\ last' = [op |-> "get_pointer_timeseries", layer |-> layer, result |-> res]
     /\ dmap' = IF res.err = "" THEN res.dmap ELSE dmap
     /\ UNCHANGED ds

\* the stream of the DynamicMap delivers the event (x, y)
DoCallback(x, y) ==
  /\ dmap.kind = "dmap"
  /\ last' = [op |-> "callback", x |-> x, y |-> y,
              inmesh |-> IsPointInTheMesh(dmap.source_raster, x, y),
              result |-> Callback(dmap, x, y)]
  /\ UNCHANGED <<ds, dmap>>

DoIsPointInTheMesh(lon, lat) ==
  /\ dmap.kind = "dmap"
  /\ last' = [op |-> "is_point_in_the_mesh", lon |-> lon, lat |-> lat, raster |-> dmap.source_raster,
              result |-> IsPointInTheMesh(dmap.source_raster, lon, lat)]
  /\ UNCHANGED <<ds, dmap>>

DoExtractTimeseries(lon, lat) ==
  /\ last' = [op |-> "extract_timeseries", lon |-> lon, lat |-> lat,
              result |-> ExtractTimeseries(ds, Variable, lon, lat)]
  /\ UNCHANGED <<ds, dmap>>

DoPlotTimeseries(lon, lat) ==
  /\ last' = [op |-> "plot_timeseries", lon |-> lon, lat |-> lat,
              result |-> PlotTimeseries(ExtractTimeseries(ds, Variable, lon, lat), lon, lat)]
  /\ UNCHANGED <<ds, dmap>>

DoGenerateMeshPolygon ==
  /\ last' = [op |-> "generate_mesh_polygon", result |-> GenerateMeshPolygon(ds)]
  /\ UNCHANGED <<ds, dmap>>

\* building the map layers and the mesh polygon
NextMesh ==
  \/ \E timestamp \in TimestampInputs, layer \in LayerInputs : DoCreateTrimesh(timestamp, layer)
  \/ \E timestamp \in TimestampInputs, layer \in LayerInputs : DoGetRaster(timestamp, layer)
  \/ DoGenerateMeshPolygon

\* the time-series panel driven by a stream over the raster
NextStream ==
  \/ \E c \in StreamClasses, layer \in LayerInputs : DoGetStreamTimeseries(c, layer)
  \/ \E layer \in LayerInputs : DoGetTapTimeseries(layer)
  \/ \E layer \in LayerInputs : DoGetPointerTimeseries(layer)
  \/ \E x \in Coords, y \in Coords : DoCallback(x, y)
  \/ \E lon \in Coords, lat \in Coords : DoIsPointInTheMesh(lon, lat)

\* direct extraction and plotting of a time series
NextSeries ==
  \/ \E lon \in Coords, lat \in Coords : DoExtractTimeseries(lon, lat)
  \/ \E lon \in Coords, lat \in Coords : DoPlotTimeseries(lon, lat)

Next == NextMesh \/ NextStream \/ NextSeries

SpecMesh == Init /\ [][NextMesh]_vars
SpecStream == Init /\ [][NextStream]_vars
SpecSeries == Init /\ [][NextSeries]_vars
Spec == Init /\ [][Next]_vars

\* ------------------------------------------------------------- properties
\* the point lies in a triangle of the mesh of d
InMesh(d, x, y) ==
  \E r \in 1..Len(d.triface_nodes) : InTriangle(d.lon, d.lat, d.triface_nodes[r], x, y)

\* arr is the part of full at position i of the node dimension
IsNodeSeries(arr, full, i) ==
  LET k == DimPos(full.dims, "node")
  IN /\ arr.dims = DropAt(full.dims, k)
     /\ DOMAIN arr.vals = IndexSet(arr.dims)
     /\ \A s \in DOMAIN arr.vals : arr.vals[s] = full.vals[InsertAt(s, k, i)]

\* C1: for every event (x, y) delivered to the callback: when the point is
\* in the mesh of the source raster, the curve is the series of the variable
\* at the nearest node and the title shows that node's lon/lat; otherwise
\* the curve is empty, no nearest-node lookup is made and the title shows
\* the event's own x/y.
C1_CallbackCurve ==
  last.op = "callback" =>
    LET n == GetIndexOfNearestNode(dmap.ds, last.x, last.y)
        r == last.result
    IN IF IsPointInTheMesh(dmap.source_raster, last.x, last.y)
         THEN /\ IsNodeSeries(r.curve, dmap.ds.elev, n)
              /\ r.lookups = <<n>>
              /\ r.title = Title(Variable, Idx(dmap.ds.lon, n), Idx(dmap.ds.lat, n))
         ELSE /\ DOMAIN r.curve.vals = {}
              /\ r.lookups = <<>>
              /\ r.title = Title(Variable, last.x, last.y)

C1_Witness ==
  /\ last.op = "callback"
  /\ last.inmesh
  /\ last.result.lookups # <<>>
  /\ DOMAIN last.result.curve.vals # {}
  /\ last.result.title # Title(Variable, last.x, last.y)

\* C2: for every point within the extent of the raster, is_point_in_the_mesh
\* returns True exactly when the point is inside the mesh.
C2_InMeshIffInside ==
  (/\ last.op = "is_point_in_the_mesh"
   /\ ~OutOfBounds(last.raster.lon, last.lon)
   /\ ~OutOfBounds(last.raster.lat, last.lat))
    => (last.result <=> InMesh(ds, last.lon, last.lat))

\* C3: _get_stream_timeseries raises ValueError for every stream class
\* other than Tap and PointerXY, before any other step; get_tap_timeseries
\* passes Tap and get_pointer_timeseries passes PointerXY and neither raises.
C3_StreamClassCheck ==
  /\ (last.op = "_get_stream_timeseries" /\ last.stream_class \notin {"Tap", "PointerXY"})
       => (last.result.err = "ValueError" /\ last.result.steps = <<>>)
  /\ last.op = "get_tap_timeseries"
       => (last.result.err = "" /\ last.result.dmap.stream.cls = "Tap" /\ dmap = last.result.dmap)
  /\ last.op = "get_pointer_timeseries"
       => (last.result.err = "" /\ last.result.dmap.stream.cls = "PointerXY" /\ dmap = last.result.dmap)

C3_Witness ==
  /\ last.op = "_get_stream_timeseries"
  /\ last.stream_class = "DoubleTap"
  /\ last.layer # None
  /\ last.result.err = "ValueError"

\* C4: extract_timeseries returns the variable at the nearest node for
\* every (lon, lat), also for a point outside the mesh.
C4_ExtractNearest ==
  last.op = "extract_timeseries" =>
    /\ IsNodeSeries(last.result, ds.elev, GetIndexOfNearestNode(ds, last.lon, last.lat))
    /\ DOMAIN last.result.vals # {}

C4_Witness ==
  /\ last.op = "extract_timeseries"
  /\ Len(ds.triface_nodes) > 0
  /\ ~InMesh(ds, last.lon, last.lat)
  /\ GetIndexOfNearestNode(ds, last.lon, last.lat) # 0
  /\ DOMAIN last.result.vals # {}

\* the values of full along time, at the other indices s of out
TimeSlice(full, s) ==
  { full.vals[InsertAt(s, DimPos(full.dims, "time"), t)] : t \in 0..(NumTimes - 1) }

IsUpperBound(v, S) == \A x \in S : IsNaN(x) \/ (~IsNaN(v) /\ x[1] <= v[1])
IsLowerBound(v, S) == \A x \in S : IsNaN(x) \/ (~IsNaN(v) /\ v[1] <= x[1])

\* out is the reduction of full over time: per remaining index the greatest
\* (upper) or least present value, NaN where no value is present
IsTimeExtreme(out, full, upper) ==
  /\ out.dims = DropAt(full.dims, DimPos(full.dims, "time"))
  /\ DOMAIN out.vals = IndexSet(out.dims)
  /\ \A s \in DOMAIN out.vals :
       /\ IsNaN(out.vals[s]) <=> (\A x \in TimeSlice(full, s) : IsNaN(x))
       /\ ~IsNaN(out.vals[s]) => out.vals[s] \in TimeSlice(full, s)
       /\ IF upper THEN IsUpperBound(out.vals[s], TimeSlice(full, s))
                   ELSE IsLowerBound(out.vals[s], TimeSlice(full, s))

\* out is full at position t of the time dimension
IsTimeSelection(out, full, t) ==
  /\ out.dims = DropAt(full.dims, DimPos(full.dims, "time"))
  /\ DOMAIN out.vals = IndexSet(out.dims)
  /\ \A s \in DOMAIN out.vals : out.vals[s] = full.vals[InsertAt(s, DimPos(full.dims, "time"), t)]

\* full restricted to the layer (unrestricted for None)
IsLayerOf(arr, full, layer) ==
  IF layer = None THEN arr = full
  ELSE LET k == DimPos(full.dims, "layer")
       IN /\ arr.dims = DropAt(full.dims, k)
          /\ \A s \in IndexSet(arr.dims) : arr.vals[s] = full.vals[InsertAt(s, k, layer.i)]

\* C5: create_trimesh takes "max" as the maximum over time, "min" as the
\* minimum over time, any other truthy timestamp as the values at exactly
\* that time (none when the time is absent), and a falsy timestamp as no
\* reduction or selection; a layer that is not None is applied first.
C5_TimestampPriority ==
  last.op = "create_trimesh" =>
    LET r == last.result
        ts == last.timestamp
        base == IF last.layer = None THEN ds.elev ELSE IselArray(ds.elev, "layer", last.layer.i)
    IN /\ IsLayerOf(base, ds.elev, last.layer)
       /\ last.layer # None => (Len(r.steps) = 2 /\ r.steps[1] = "isel_layer")
       /\ last.layer = None => Len(r.steps) = 1
       /\ ts = PyStr("max") => (r.err = "" /\ IsTimeExtreme(r.points.vals, base, TRUE))
       /\ ts = PyStr("min") => (r.err = "" /\ IsTimeExtreme(r.points.vals, base, FALSE))
       /\ (ts # PyStr("max") /\ ts # PyStr("min") /\ Truthy(ts)) =>
            IF \E t \in 0..(NumTimes - 1) : Idx(ds.time, t) = ts
              THEN r.err = "" /\ \E t \in 0..(NumTimes - 1) :
                                   Idx(ds.time, t) = ts /\ IsTimeSelection(r.points.vals, base, t)
              ELSE r.err = "KeyError"
       /\ ~Truthy(ts) => (r.err = "" /\ r.points.vals = base)

C5_Witness ==
  /\ last.op = "create_trimesh"
  /\ last.timestamp = PyStr("max")
  /\ last.layer = PyInt(1)
  /\ last.result.err = ""
  /\ last.result.points.vals.dims = <<"node">>
  /\ last.result.points.vals # IselArray(IselArray(ds.elev, "layer", 1), "time", 0)
  /\ last.result.points.vals # IselArray(IselArray(ds.elev, "layer", 1), "time", 1)

\* the (lon, lat) stored at position i
PointAt(d, i) == <<Idx(d.lon, i), Idx(d.lat, i)>>

\* C6: for every dataset and every triangle row (a, b, c), the ring built
\* is [P(a), P(b), P(c), P(a)] with P(i) the point at position i, whatever
\* the values of the node coordinate.
C6_RingsByPosition ==
  (last.op = "generate_mesh_polygon" /\ last.result.err = "") =>
    /\ Len(last.result.rings) = Len(ds.triface_nodes)
    /\ \A r \in 1..Len(ds.triface_nodes) :
         last.result.rings[r] = << PointAt(ds, ds.triface_nodes[r][1]), PointAt(ds, ds.triface_nodes[r][2]),
                                   PointAt(ds, ds.triface_nodes[r][3]), PointAt(ds, ds.triface_nodes[r][1]) >>

\* C7: the sanity check of generate_mesh_polygon never fires: for T rows
\* of three columns (T >= 0) the stacked coordinates have shape (T, 4, 2).
C7_SanityCheckNeverFires ==
  last.op = "generate_mesh_polygon" =>
    /\ last.result.err # "ValueError"
    /\ last.result.err = "" => last.result.shape = <<Len(ds.triface_nodes), 4, 2>>

C7_Witness ==
  /\ last.op = "generate_mesh_polygon"
  /\ Len(ds.triface_nodes) = 0
  /\ last.result.err = ""
  /\ last.result.shape = <<0, 4, 2>>

\* C8: plot_timeseries completes without raising and returns a curve of ts.
C8_PlotCompletes ==
  last.op = "plot_timeseries" =>
    (last.result.err = "" /\ last.result.curve = ExtractTimeseries(ds, Variable, last.lon, last.lat))
====
